---------------------------- MODULE Spec2Model ----------------------------
(***************************************************************************)
(* A model of the three scripts of the vegetation_loss repository:         *)
(*                                                                         *)
(*   scripts/qa/ccd_break_filter_to_raster.py                              *)
(*       filter_pixel_group                        (SpecFilter)            *)
(*       process_directory_to_geotiff and callees  (Spec)                  *)
(*   scripts/data_acquisition/gee_download_S2_tile_36_parts.py             *)
(*       exportImageForSingleImage                 (SpecTiles)             *)
(*       process_and_mosaic_images, the pool       (SpecPool)              *)
(*       combine_tiffs_to_mosaic                   (SpecMosaic)            *)
(*                                                                         *)
(* The scripts share no state; each specification drives the variables of  *)
(* one function and leaves the others at their idle values.                *)
(*                                                                         *)
(* Conventions.  A pandas missing value (NaN) and Python's None are the    *)
(* empty tuple; a present number v is the 1-tuple <<v>>.  Times are        *)
(* integer milliseconds since the Unix epoch.  A calendar date is the      *)
(* tuple <<year, month, day>>.                                             *)
(***************************************************************************)
EXTENDS Integers, Sequences, FiniteSets, TLC

VARIABLES
    \* ---- filter_pixel_group (one call)
    group,            \* the rows of one pixel, as passed by the caller
    search_start,     \* None or a date
    search_end,       \* None or a date
    fpg_pc,           \* "call" | "returned"
    filtered_row,     \* the value returned: None or <<row>>
    \* ---- process_directory_to_geotiff
    parquet_files,    \* the tables of the *.parquet files, in glob order
    output_vector_file, \* None or <<"gpkg">>
    pipe_pc,          \* position in process_directory_to_geotiff
    file_i,           \* files processed so far by collect_data_from_directory
    all_filtered_rows,\* rows collected so far
    tbreak_array,     \* the raster array: [1..height -> [1..width -> Int]]
    row_i,            \* rows visited so far by create_raster_array_utm
    written,          \* kinds of output file written
    \* ---- exportImageForSingleImage
    coords,           \* the image's bounding box: [xmin, ymin, xmax, ymax]
    tile_pc,          \* position in exportImageForSingleImage
    tile_i,           \* outer loop index i
    tile_j,           \* inner loop index j
    regions,          \* the list of (rectangle, label)
    region_k,         \* regions visited so far by the download loop
    n_files,          \* sub-tile files saved by download_image
    \* ---- process_and_mosaic_images
    num_images,       \* imageList.size()
    pool_pc,          \* position of the main process
    submitted,        \* futures appended so far
    started,          \* tasks taken by a worker process so far (in FIFO order)
    finished,         \* tasks whose worker has returned
    wait_i,           \* futures whose result() has returned
    mosaic_i,         \* mosaics completed so far
    mosaic_running,   \* image indices whose combine_tiffs_to_mosaic is executing
    mosaic_order,     \* image indices in the order their mosaic was started
    \* ---- combine_tiffs_to_mosaic
    tiff_files,       \* number of sub-tile files found for the date
    merged,           \* the merged mosaic: [band -> [pixel -> value]]
    inside,           \* the pixels whose centre lies in the clip geometry
    mosaic_pc,        \* position in combine_tiffs_to_mosaic
    clipped,          \* out_image as mask() returned it: [data, mask]
    out_image,        \* out_image now: [data, mask]
    output_file,      \* None or <<the array last written to the output file>>
    subtiles_removed, \* the sub-tile folder has been deleted
    \* ---- processar_pixel (one call)
    datas_pixel,      \* the dates of the image series, as 'YYYYMMDD' strings
    pixel_vals,       \* pixel_vals[i][b]: the value of band b at date i
    data_0_dt,        \* the reference date, as a day
    data_1_dt,        \* None or <<the second reference date, as a day>>
    n_obs,            \* the argument N_OBS
    obs_pc,           \* position in processar_pixel
    df_base,          \* the valid observations of band 0, by date
    band_b,           \* the band the loop over band_names comes to next
    pixel_row         \* the dictionary "row" under construction

filterVars == <<group, search_start, search_end, fpg_pc, filtered_row>>
pipeVars == <<parquet_files, output_vector_file, pipe_pc, file_i,
              all_filtered_rows, tbreak_array, row_i, written>>
tileVars == <<coords, tile_pc, tile_i, tile_j, regions, region_k, n_files>>
poolVars == <<num_images, pool_pc, submitted, started, finished, wait_i,
              mosaic_i, mosaic_running, mosaic_order>>
mosaicVars == <<tiff_files, merged, inside, mosaic_pc, clipped, out_image,
                output_file, subtiles_removed>>
pixelVars == <<datas_pixel, pixel_vals, data_0_dt, data_1_dt, n_obs, obs_pc,
               df_base, band_b, pixel_row>>
vars == <<filterVars, pipeVars, tileVars, poolVars, mosaicVars, pixelVars>>

\* What the actions of one function leave alone.
otherThanFilter == <<pipeVars, tileVars, poolVars, mosaicVars, pixelVars>>
otherThanPipe == <<filterVars, tileVars, poolVars, mosaicVars, pixelVars>>
otherThanTile == <<filterVars, pipeVars, poolVars, mosaicVars, pixelVars>>
otherThanPool == <<filterVars, pipeVars, tileVars, mosaicVars, pixelVars>>
otherThanMosaic == <<filterVars, pipeVars, tileVars, poolVars, pixelVars>>
otherThanPixel == <<filterVars, pipeVars, tileVars, poolVars, mosaicVars>>

None == <<>>
NaN == <<>>

isna(v) == v = NaN

Num(v) == v[1]

\* ------------------------------------------------------------------------
\* Bounds of the model
\* ------------------------------------------------------------------------
MaxGroupRows == 3
MaxFiles == 2
MaxRows == 3
MaxExtent == 2
MaxImages == 26
MosaicBands == 2
MosaicPixels == 3
MaxObs == 3

\* ------------------------------------------------------------------------
\* Dates
\* ------------------------------------------------------------------------
MsPerDay == 86400000

\* Days since 1970-01-01 of a proleptic Gregorian date (what
\* pd.to_datetime('YYYY-MM-DD') parses to, as a day count).
DaysFromCivil(y, m, d) ==
    LET yy  == IF m <= 2 THEN y - 1 ELSE y
        era == yy \div 400
        yoe == yy - era * 400
        mp  == IF m > 2 THEN m - 3 ELSE m + 9
        doy == (153 * mp + 2) \div 5 + d - 1
        doe == yoe * 365 + yoe \div 4 - yoe \div 100 + doy
    IN  era * 146097 + doe - 719468

\* int(pd.to_datetime(s).timestamp() * 1000) for a date string s: a naive
\* Timestamp is taken as UTC, midnight of the date.
timestamp_ms(date) == DaysFromCivil(date[1], date[2], date[3]) * MsPerDay

\* ------------------------------------------------------------------------
\* pandas helpers
\* ------------------------------------------------------------------------
head(s, n) == IF n >= Len(s) THEN s ELSE SubSeq(s, 1, n)

dropna(s) ==
    LET present(r) == ~isna(r.tBreak) IN SelectSeq(s, present)

nan_rows(s) ==
    LET missing(r) == isna(r.tBreak) IN SelectSeq(s, missing)

\* r inserted into s, which is in descending tBreak order, after every row
\* whose tBreak is not smaller: rows with equal values keep their order.
RECURSIVE InsertDesc(_, _)
InsertDesc(r, s) ==
    IF s = <<>> THEN <<r>>
    ELSE IF Num(Head(s).tBreak) >= Num(r.tBreak)
         THEN <<Head(s)>> \o InsertDesc(r, Tail(s))
         ELSE <<r>> \o s

RECURSIVE SortDesc(_)
SortDesc(s) ==
    IF s = <<>> THEN <<>>
    ELSE InsertDesc(s[Len(s)], SortDesc(SubSeq(s, 1, Len(s) - 1)))

\* Series.sort_values(ascending=False): present values in descending order,
\* missing values last (na_position='last').
sort_values_desc(s) == SortDesc(dropna(s)) \o nan_rows(s)

\* Series.nlargest(n), keep='first' (pandas.core.methods.selectn): a series
\* no longer than n is sorted whole; otherwise the n largest present values
\* are taken, first occurrences first among equals, and the rows with a
\* missing value follow them, the whole cut to n.
nlargest(s, n) ==
    IF n <= 0 THEN <<>>
    ELSE IF n >= Len(s) THEN head(sort_values_desc(s), n)
    ELSE LET dropped   == dropna(s)
             nan_index == nan_rows(s)
             narr      == Len(dropped)
             k         == IF n < narr THEN n ELSE narr
             kth_val   == Num(SortDesc(dropped)[k].tBreak)
             reaches(r) == Num(r.tBreak) >= kth_val
             ns        == IF narr > 0 THEN SelectSeq(dropped, reaches) ELSE <<>>
             inds      == head(SortDesc(ns), k)
         IN  head(inds \o nan_index, n)

\* group.loc[label]: the row carrying the index label (labels are unique in
\* a table read from one parquet file).
loc(g, label) ==
    LET has(r) == r.index = label IN Head(SelectSeq(g, has))

\* ------------------------------------------------------------------------
\* filter_pixel_group
\* ------------------------------------------------------------------------
\* filtered_group['tBreak'] >= search_start_ms (a comparison with NaN is False)
in_range_start_strict(t, ms) == ~isna(t) /\ Num(t) > ms
in_range_start(t, ms) == ~isna(t) /\ Num(t) >= ms

\* filtered_group['tBreak'] <= search_end_ms
in_range_end_strict(t, ms) == ~isna(t) /\ Num(t) < ms
in_range_end(t, ms) == ~isna(t) /\ Num(t) <= ms

\* group['tBreak'].nlargest(2).index[-1]
highest_idx(g) == nlargest(g, 2)[1].index
second_highest_idx(g) ==
    LET top == nlargest(g, 2) IN top[Len(top)].index

filter_pixel_group(g, start, end) ==
    LET after_start ==
            IF start # None
            THEN LET keep(r) == in_range_start(r.tBreak, timestamp_ms(start))
                 IN  SelectSeq(g, keep)
            ELSE g
        after_end ==
            IF end # None
            THEN LET keep(r) == in_range_end(r.tBreak, timestamp_ms(end))
                 IN  SelectSeq(after_start, keep)
            ELSE after_start
        dated == start # None \/ end # None
        grp   == IF dated THEN after_end ELSE g
    IN  IF dated /\ Len(after_end) = 0 THEN None
        ELSE IF Len(grp) = 1 THEN <<grp[1]>>
        ELSE <<loc(grp, second_highest_idx(grp))>>

\* The inputs of one call: a pixel group of 1..MaxGroupRows rows (groupby
\* yields no empty group) and the two optional search dates.  The values sit
\* on and around the two dates, so that both ends of the range are met.
FilterTBreaks == {NaN, <<-1>>, <<0>>, <<MsPerDay>>, <<MsPerDay + 1>>}
FilterDates == {None, <<1970, 1, 1>>, <<1970, 1, 2>>}

MakeGroup(ts) ==
    [i \in DOMAIN ts |-> [index |-> i, x_coord |-> 0, y_coord |-> 0, tBreak |-> ts[i]]]

FilterGroups ==
    {MakeGroup(ts) : ts \in UNION {[1..n -> FilterTBreaks] : n \in 1..MaxGroupRows}}

FilterIdle ==
    /\ group = <<>>
    /\ search_start = None
    /\ search_end = None
    /\ fpg_pc = "idle"
    /\ filtered_row = None

FilterInit ==
    /\ group \in FilterGroups
    /\ search_start \in FilterDates
    /\ search_end \in FilterDates
    /\ fpg_pc = "call"
    /\ filtered_row = None

CallFilterPixelGroup ==
    /\ fpg_pc = "call"
    /\ filtered_row' = filter_pixel_group(group, search_start, search_end)
    /\ fpg_pc' = "returned"
    /\ UNCHANGED <<group, search_start, search_end>>
    /\ UNCHANGED otherThanFilter

\* ------------------------------------------------------------------------
\* process_parquet_file, collect_data_from_directory
\* ------------------------------------------------------------------------
KeyLess(a, b) == a[1] < b[1] \/ (a[1] = b[1] /\ a[2] < b[2])

\* The keys of df.groupby(['x_coord', 'y_coord']) in the order the groups are
\* visited: groupby sorts its keys.
RECURSIVE SortedKeys(_)
SortedKeys(keys) ==
    IF keys = {} THEN <<>>
    ELSE LET k == CHOOSE a \in keys : \A b \in keys \ {a} : KeyLess(a, b)
         IN  <<k>> \o SortedKeys(keys \ {k})

\* The rows of one group, in the order of the table.
GroupOf(df, key) ==
    LET inKey(r) == <<r.x_coord, r.y_coord>> = key IN SelectSeq(df, inKey)

RECURSIVE FilterGroups_(_, _, _, _)
FilterGroups_(df, keys, start, end) ==
    IF keys = <<>> THEN <<>>
    ELSE filter_pixel_group(GroupOf(df, Head(keys)), start, end)
             \o FilterGroups_(df, Tail(keys), start, end)

\* The rows process_parquet_file returns for one table (no boundary file):
\* one call of filter_pixel_group per group, a None result left out.
process_parquet_file(df, start, end) ==
    FilterGroups_(df,
                  SortedKeys({<<df[i].x_coord, df[i].y_coord>> : i \in DOMAIN df}),
                  start, end)

\* ------------------------------------------------------------------------
\* calculate_raster_parameters_utm, create_raster_array_utm
\* ------------------------------------------------------------------------
res_x == 10
res_y == 10
NODATA_RASTER == -9999

SetMin(S) == CHOOSE a \in S : \A b \in S : a <= b
SetMax(S) == CHOOSE a \in S : \A b \in S : a >= b

CeilDiv(a, b) == -((-a) \div b)

\* np.round(n / d): to the nearest integer, a half to the even neighbour.
RoundHalfEven(n, d) ==
    LET q == n \div d
        r == n % d
    IN  IF 2 * r < d THEN q
        ELSE IF 2 * r > d THEN q + 1
        ELSE IF q % 2 = 0 THEN q ELSE q + 1

calculate_raster_parameters_utm(gdf) ==
    LET xs == {gdf[i].x_coord : i \in DOMAIN gdf}
        ys == {gdf[i].y_coord : i \in DOMAIN gdf}
        min_x_corner == SetMin(xs) - res_x \div 2
        min_y_corner == SetMin(ys) - res_y \div 2
        max_x_corner == SetMax(xs) + res_x \div 2
        max_y_corner == SetMax(ys) + res_y \div 2
    IN  [width  |-> CeilDiv(max_x_corner - min_x_corner, res_x),
         height |-> CeilDiv(max_y_corner - min_y_corner, res_y),
         min_x |-> min_x_corner, min_y |-> min_y_corner,
         max_x |-> max_x_corner, max_y |-> max_y_corner]

\* int(np.round((row['x_coord'] - min_x) / res_x - 0.5))
x_idx(row, params) ==
    RoundHalfEven(2 * (row.x_coord - params.min_x) - res_x, 2 * res_x)

\* int(np.round((max_y - row['y_coord']) / res_y - 0.5))
y_idx(row, params) ==
    RoundHalfEven(2 * (params.max_y - row.y_coord) - res_y, 2 * res_y)

\* The civil date of a day count since 1970-01-01, as <<year, month, day>>.
CivilFromDays(days) ==
    LET z   == days + 719468
        era == z \div 146097
        doe == z - era * 146097
        yoe == (doe - doe \div 1460 + doe \div 36524 - doe \div 146096) \div 365
        doy == doe - (365 * yoe + yoe \div 4 - yoe \div 100)
        mp  == (5 * doy + 2) \div 153
        d   == doy - (153 * mp + 2) \div 5 + 1
        m   == IF mp < 10 THEN mp + 3 ELSE mp - 9
        y   == yoe + era * 400 + (IF m <= 2 THEN 1 ELSE 0)
    IN  <<y, m, d>>

\* A buggy variant: the day found by a division that rounds toward zero,
\* which is a day late for every time before the epoch.
yyyymmdd_toward_zero(t) ==
    LET days == IF t >= 0 THEN t \div MsPerDay ELSE -((-t) \div MsPerDay)
        c    == CivilFromDays(days)
    IN  c[1] * 10000 + c[2] * 100 + c[3]

\* int(pd.to_datetime(t, unit='ms', utc=True).tz_localize(None)
\*        .strftime('%Y%m%d')): the UTC calendar day that holds instant t.
yyyymmdd(t) ==
    LET c == CivilFromDays(t \div MsPerDay)
    IN  c[1] * 10000 + c[2] * 100 + c[3]

\* np.full((height, width), -9999, dtype=np.int32)
EmptyRaster(params) ==
    [r \in 0..(params.height - 1) |-> [c \in 0..(params.width - 1) |-> NODATA_RASTER]]

\* One turn of the loop over gdf.iterrows().
raster_row(array, row, params) ==
    LET xi == x_idx(row, params)
        yi == y_idx(row, params)
    IN  IF 0 <= xi /\ xi < params.width /\ 0 <= yi /\ yi < params.height
           /\ ~isna(row.tBreak)
        THEN [array EXCEPT ![yi][xi] = yyyymmdd(Num(row.tBreak))]
        ELSE array

\* ------------------------------------------------------------------------
\* process_directory_to_geotiff
\* ------------------------------------------------------------------------
\* "if output_vector_file is not None" as if the test were left out.
saves_vector_always(file) == TRUE
saves_vector(file) == file # None

PipeIdle ==
    /\ parquet_files = <<>>
    /\ output_vector_file = None
    /\ pipe_pc = "idle"
    /\ file_i = 0
    /\ all_filtered_rows = <<>>
    /\ tbreak_array = <<>>
    /\ row_i = 0
    /\ written = {}

\* glob.glob(...): no parquet file ends the run with "No data".
Glob ==
    /\ pipe_pc = "glob"
    /\ pipe_pc' = IF parquet_files = <<>> THEN "done" ELSE "files"
    /\ UNCHANGED <<parquet_files, output_vector_file, file_i, all_filtered_rows,
                   tbreak_array, row_i, written>>
    /\ UNCHANGED otherThanPipe

\* One turn of the loop over parquet_files in collect_data_from_directory.
ProcessFile ==
    /\ pipe_pc = "files"
    /\ file_i < Len(parquet_files)
    /\ all_filtered_rows' = all_filtered_rows \o
           process_parquet_file(parquet_files[file_i + 1], search_start, search_end)
    /\ file_i' = file_i + 1
    /\ UNCHANGED <<parquet_files, output_vector_file, pipe_pc, tbreak_array,
                   row_i, written>>
    /\ UNCHANGED otherThanPipe

\* The end of collect_data_from_directory: None when no row was kept, else
\* pd.DataFrame(all_filtered_rows), made a GeoDataFrame by the caller.
Collected ==
    /\ pipe_pc = "files"
    /\ file_i = Len(parquet_files)
    /\ pipe_pc' = IF all_filtered_rows = <<>> THEN "done" ELSE "style"
    /\ UNCHANGED <<parquet_files, output_vector_file, file_i, all_filtered_rows,
                   tbreak_array, row_i, written>>
    /\ UNCHANGED otherThanPipe

\* create_qgis_style_file, then calculate_raster_parameters_utm and the
\* np.full of create_raster_array_utm.
CreateStyleFile ==
    /\ pipe_pc = "style"
    /\ written' = written \cup {"qml"}
    /\ tbreak_array' = EmptyRaster(calculate_raster_parameters_utm(all_filtered_rows))
    /\ row_i' = 0
    /\ pipe_pc' = "raster"
    /\ UNCHANGED <<parquet_files, output_vector_file, file_i, all_filtered_rows>>
    /\ UNCHANGED otherThanPipe

RasterRow ==
    /\ pipe_pc = "raster"
    /\ row_i < Len(all_filtered_rows)
    /\ tbreak_array' = raster_row(tbreak_array, all_filtered_rows[row_i + 1],
                                  calculate_raster_parameters_utm(all_filtered_rows))
    /\ row_i' = row_i + 1
    /\ UNCHANGED <<parquet_files, output_vector_file, pipe_pc, file_i,
                   all_filtered_rows, written>>
    /\ UNCHANGED otherThanPipe

SaveGeotiff ==
    /\ pipe_pc = "raster"
    /\ row_i = Len(all_filtered_rows)
    /\ written' = written \cup {"tif"}
    /\ pipe_pc' = "vector"
    /\ UNCHANGED <<parquet_files, output_vector_file, file_i, all_filtered_rows,
                   tbreak_array, row_i>>
    /\ UNCHANGED otherThanPipe

SaveVector ==
    /\ pipe_pc = "vector"
    /\ written' = IF saves_vector(output_vector_file)
                  THEN written \cup {"gpkg"} ELSE written
    /\ pipe_pc' = "done"
    /\ UNCHANGED <<parquet_files, output_vector_file, file_i, all_filtered_rows,
                   tbreak_array, row_i>>
    /\ UNCHANGED otherThanPipe

\* ------------------------------------------------------------------------
\* exportImageForSingleImage
\* ------------------------------------------------------------------------
\* Coordinates of the bounding box are integers; the corners of the
\* rectangles are held in sixths of a unit (a value v stands for v / GRID),
\* so that (xmax - xmin) / 6 is exact.
GRID == 6

\* step_x and step_y, in sixths
step_x(c) == c.xmax - c.xmin
step_y(c) == c.ymax - c.ymin

\* ee.Geometry.Rectangle(xmin + i * step_x, ymin + j * step_y,
\*                       xmin + (i + 1) * step_x, ymin + (j + 1) * step_y)
Rectangle(c, i, j) ==
    [x0 |-> GRID * c.xmin + i * step_x(c),
     y0 |-> GRID * c.ymin + j * step_y(c),
     x1 |-> GRID * c.xmin + (i + 1) * step_x(c),
     y1 |-> GRID * c.ymin + (j + 1) * step_y(c)]

\* f'part_{i * 6 + j + 1}', as the number after "part_"
part_label_from_zero(i, j) == i * GRID + j
part_label(i, j) == i * GRID + j + 1

TileIdle ==
    /\ coords = <<>>
    /\ tile_pc = "idle"
    /\ tile_i = 0
    /\ tile_j = 0
    /\ regions = <<>>
    /\ region_k = 0
    /\ n_files = 0

\* image.geometry(), image.date().getInfo(), bounds.getInfo(): the values
\* arrive and the steps are computed.
GetInfo ==
    /\ tile_pc = "info"
    /\ tile_pc' = "grid"
    /\ UNCHANGED <<coords, tile_i, tile_j, regions, region_k, n_files>>
    /\ UNCHANGED otherThanTile

\* A call to Earth Engine raises: the except clause prints and the function
\* returns.
ExportFails ==
    /\ tile_pc \in {"info", "parts"}
    /\ tile_pc' = "done"
    /\ UNCHANGED <<coords, tile_i, tile_j, regions, region_k, n_files>>
    /\ UNCHANGED otherThanTile

\* One turn of the inner loop "for j in range(6)".
AppendRegion ==
    /\ tile_pc = "grid"
    /\ tile_i < GRID
    /\ regions' = Append(regions, [rect  |-> Rectangle(coords, tile_i, tile_j),
                                   label |-> part_label(tile_i, tile_j)])
    /\ IF tile_j + 1 < GRID
       THEN tile_j' = tile_j + 1 /\ tile_i' = tile_i
       ELSE tile_j' = 0 /\ tile_i' = tile_i + 1
    /\ UNCHANGED <<coords, tile_pc, region_k, n_files>>
    /\ UNCHANGED otherThanTile

GridDone ==
    /\ tile_pc = "grid"
    /\ tile_i = GRID
    /\ tile_pc' = "parts"
    /\ UNCHANGED <<coords, tile_i, tile_j, regions, region_k, n_files>>
    /\ UNCHANGED otherThanTile

\* One turn of "for region, label in regions": the part is clipped and,
\* when it has bands, download_image is called; download_image saves the
\* file on status 200 and catches its own errors.
DownloadPart ==
    /\ tile_pc = "parts"
    /\ region_k < Len(regions)
    /\ \E saved \in BOOLEAN :
           n_files' = IF saved THEN n_files + 1 ELSE n_files
    /\ region_k' = region_k + 1
    /\ UNCHANGED <<coords, tile_pc, tile_i, tile_j, regions>>
    /\ UNCHANGED otherThanTile

PartsDone ==
    /\ tile_pc = "parts"
    /\ region_k = Len(regions)
    /\ tile_pc' = "done"
    /\ UNCHANGED <<coords, tile_i, tile_j, regions, region_k, n_files>>
    /\ UNCHANGED otherThanTile

\* ------------------------------------------------------------------------
\* process_images_in_parallel, process_and_mosaic_images
\* ------------------------------------------------------------------------
\* The tasks are alike, so the pool is held as three counts.  The executor
\* hands queued calls to its worker processes in submission order, hence
\* the tasks started are those numbered below "started"; which of the
\* started tasks have returned is not recorded, only how many.
max_workers == 24

\* A worker process is free to take the next queued call.
worker_free_unbounded(nstarted, nfinished) == TRUE
worker_free(nstarted, nfinished) == nstarted - nfinished < max_workers

\* Future j (from 0) is done.  result() is asked of the futures in order,
\* so when future j is waited on the futures before it are done: j is done
\* exactly when more than j tasks have returned, up to the naming of the
\* tasks that run at the same time.
task_done_unwaited(j, nfinished) == TRUE
task_done(j, nfinished) == nfinished > j

PoolIdle ==
    /\ num_images = 0
    /\ pool_pc = "idle"
    /\ submitted = 0
    /\ started = 0
    /\ finished = 0
    /\ wait_i = 0
    /\ mosaic_i = 0
    /\ mosaic_running = {}
    /\ mosaic_order = <<>>

\* executor.submit(exportImageForSingleImage, image, i, ...)
Submit ==
    /\ pool_pc = "submit"
    /\ submitted < num_images
    /\ submitted' = submitted + 1
    /\ UNCHANGED <<num_images, pool_pc, started, finished, wait_i, mosaic_i,
                   mosaic_running, mosaic_order>>
    /\ UNCHANGED otherThanPool

SubmitDone ==
    /\ pool_pc = "submit"
    /\ submitted = num_images
    /\ pool_pc' = "wait"
    /\ UNCHANGED <<num_images, submitted, started, finished, wait_i, mosaic_i,
                   mosaic_running, mosaic_order>>
    /\ UNCHANGED otherThanPool

\* A worker process takes the oldest queued call.
WorkerStart ==
    /\ started < submitted
    /\ worker_free(started, finished)
    /\ started' = started + 1
    /\ UNCHANGED <<num_images, pool_pc, submitted, finished, wait_i, mosaic_i,
                   mosaic_running, mosaic_order>>
    /\ UNCHANGED otherThanPool

\* exportImageForSingleImage returns in a worker (it catches its errors).
WorkerFinish ==
    /\ finished < started
    /\ finished' = finished + 1
    /\ UNCHANGED <<num_images, pool_pc, submitted, started, wait_i, mosaic_i,
                   mosaic_running, mosaic_order>>
    /\ UNCHANGED otherThanPool

\* future.result() returns for the next future of the list.
FutureResult ==
    /\ pool_pc = "wait"
    /\ wait_i < submitted
    /\ task_done(wait_i, finished)
    /\ wait_i' = wait_i + 1
    /\ UNCHANGED <<num_images, pool_pc, submitted, started, finished, mosaic_i,
                   mosaic_running, mosaic_order>>
    /\ UNCHANGED otherThanPool

\* The end of the with block: shutdown(wait=True) returns once every
\* submitted call is done.
ExecutorExit ==
    /\ pool_pc = "wait"
    /\ wait_i = submitted
    /\ \A j \in 0..(submitted - 1) : task_done(j, finished)
    /\ pool_pc' = "mosaic"
    /\ UNCHANGED <<num_images, submitted, started, finished, wait_i, mosaic_i,
                   mosaic_running, mosaic_order>>
    /\ UNCHANGED otherThanPool

\* combine_tiffs_to_mosaic is entered for image mosaic_i.
MosaicStart ==
    /\ pool_pc = "mosaic"
    /\ mosaic_i < num_images
    /\ mosaic_running = {}
    /\ mosaic_running' = {mosaic_i}
    /\ mosaic_order' = Append(mosaic_order, mosaic_i)
    /\ UNCHANGED <<num_images, pool_pc, submitted, started, finished, wait_i,
                   mosaic_i>>
    /\ UNCHANGED otherThanPool

\* combine_tiffs_to_mosaic returns and the loop goes on.
MosaicEnd ==
    /\ pool_pc = "mosaic"
    /\ mosaic_running # {}
    /\ mosaic_running' = {}
    /\ mosaic_i' = mosaic_i + 1
    /\ UNCHANGED <<num_images, pool_pc, submitted, started, finished, wait_i,
                   mosaic_order>>
    /\ UNCHANGED otherThanPool

AllMosaicsDone ==
    /\ pool_pc = "mosaic"
    /\ mosaic_i = num_images
    /\ pool_pc' = "done"
    /\ UNCHANGED <<num_images, submitted, started, finished, wait_i, mosaic_i,
                   mosaic_running, mosaic_order>>
    /\ UNCHANGED otherThanPool

\* ------------------------------------------------------------------------
\* combine_tiffs_to_mosaic
\* ------------------------------------------------------------------------
\* The mosaic is a row of MosaicPixels pixels in MosaicBands bands.  The clip
\* geometry is the set of pixels it holds; mask(..., crop=True) cuts the
\* mosaic to the window between the first and the last of them.
NODATA == 65535

Bands == 1..MosaicBands

\* rasterio.mask.mask(src, geometries, crop=True, nodata=NODATA,
\* filled=False): a masked array over the crop window.  An entry is masked
\* when it is nodata in the file (the file was written with nodata=NODATA)
\* or when its pixel lies outside the geometry; the data under the mask is
\* left as read.
mask(image, shape) ==
    LET window == SetMin(shape)..SetMax(shape)
    IN  [data |-> [b \in Bands |-> [p \in window |-> image[b][p]]],
         mask |-> [b \in Bands |-> [p \in window |->
                      image[b][p] = NODATA \/ p \notin shape]]]

Window(img) == DOMAIN img.data[1]

\* np.all(out_image == NODATA) as the if statement reads it.  On a masked
\* array a masked entry counts as True, and when every entry is masked the
\* result is the constant numpy.ma.masked, which is false as a condition.
all_nodata(img) ==
    /\ \A b \in Bands : \A p \in Window(img) :
           img.mask[b][p] \/ img.data[b][p] = NODATA
    /\ ~(\A b \in Bands : \A p \in Window(img) : img.mask[b][p])

\* np.all(out_image == 0, axis=0) at pixel p: a masked entry counts as True.
mask_nodata(img, p) ==
    \A b \in Bands : img.mask[b][p] \/ img.data[b][p] = 0

\* out_image[:, mask_nodata] = NODATA: the data is set and the entries are
\* unmasked.
set_nodata(img) ==
    [data |-> [b \in Bands |-> [p \in Window(img) |->
                  IF mask_nodata(img, p) THEN NODATA ELSE img.data[b][p]]],
     mask |-> [b \in Bands |-> [p \in Window(img) |->
                  IF mask_nodata(img, p) THEN FALSE ELSE img.mask[b][p]]]]

MosaicIdle ==
    /\ tiff_files = 0
    /\ merged = <<>>
    /\ inside = {}
    /\ mosaic_pc = "idle"
    /\ clipped = None
    /\ out_image = None
    /\ output_file = None
    /\ subtiles_removed = FALSE

\* glob.glob(...): without a file the function returns.
FindTiffs ==
    /\ mosaic_pc = "glob"
    /\ mosaic_pc' = IF tiff_files = 0 THEN "done" ELSE "merge"
    /\ UNCHANGED <<tiff_files, merged, inside, clipped, out_image, output_file,
                   subtiles_removed>>
    /\ UNCHANGED otherThanMosaic

\* merge(src_files_to_mosaic) and the first write of the output file.
MergeAndSave ==
    /\ mosaic_pc = "merge"
    /\ output_file' = <<merged>>
    /\ mosaic_pc' = "mask"
    /\ UNCHANGED <<tiff_files, merged, inside, clipped, out_image,
                   subtiles_removed>>
    /\ UNCHANGED otherThanMosaic

\* mask() raises ValueError when the geometry does not overlap the raster:
\* the sub-tile folder is removed.
MaskRaises ==
    /\ mosaic_pc = "mask"
    /\ inside = {}
    /\ subtiles_removed' = TRUE
    /\ mosaic_pc' = "done"
    /\ UNCHANGED <<tiff_files, merged, inside, clipped, out_image, output_file>>
    /\ UNCHANGED otherThanMosaic

MaskMosaic ==
    /\ mosaic_pc = "mask"
    /\ inside # {}
    /\ clipped' = mask(merged, inside)
    /\ out_image' = mask(merged, inside)
    /\ mosaic_pc' = "zero"
    /\ UNCHANGED <<tiff_files, merged, inside, output_file, subtiles_removed>>
    /\ UNCHANGED otherThanMosaic

\* From the test "np.all(out_image == NODATA)" to the end of the function:
\* either the early return, or the zero pixels are set to NODATA and the
\* clipped mosaic is written; the sub-tile folder is removed in both cases.
SetNodataAndSave ==
    /\ mosaic_pc = "zero"
    /\ IF all_nodata(out_image)
       THEN /\ mosaic_pc' = "done"
            /\ UNCHANGED <<out_image, output_file>>
       ELSE /\ out_image' = set_nodata(out_image)
            /\ output_file' = <<set_nodata(out_image).data>>
            /\ mosaic_pc' = "saved"
    /\ subtiles_removed' = TRUE
    /\ UNCHANGED <<tiff_files, merged, inside, clipped>>
    /\ UNCHANGED otherThanMosaic

\* ------------------------------------------------------------------------
\* processar_pixel (Extration_S2_2N_observations.py)
\* ------------------------------------------------------------------------
\* A date string 'YYYYMMDD' is held as the number its eight digits spell, so
\* that the order of two strings is the order of the numbers.  A datetime at
\* midnight is held as its day count since 1970-01-01.
N_OBS == 10
NO_VALUE == 65535

\* The band names passed by the caller; two of the script's four bands.
band_names == <<"g", "r">>

\* datetime.strptime(d, '%Y%m%d')
strptime(d) == DaysFromCivil(d \div 10000, (d \div 100) % 100, d % 100)

\* dt.strftime('%Y%m%d')
strftime(day) ==
    LET c == CivilFromDays(day)
    IN  c[1] * 10000 + c[2] * 100 + c[3]

\* data_0_dt + timedelta(days=((data_1_dt - data_0_dt).days // 2)) when
\* data_1_dt is given and differs from data_0_dt, else data_0_dt; // rounds
\* toward minus infinity.
data_target_dt(d0, d1) ==
    IF d1 # None /\ d1[1] # d0 THEN d0 + ((d1[1] - d0) \div 2) ELSE d0

\* A buggy variant: an observation dated on the target day is not "before".
is_antes_strict(data, target) == data < target

\* df['data'] <= data_target_dt
is_antes(data, target) == data <= target

\* df['data'] > data_target_dt
is_depois(data, target) == data > target

\* pd.DataFrame({'data': [strptime(d) for d in datas_pixel],
\*               'valor': pixel_vals[:, b]}), one record per row.
DataFrame(datas, vals, b) ==
    [i \in 1..Len(datas) |-> [data |-> strptime(datas[i]), valor |-> vals[i][b]]]

\* .query("valor != 65535")
query_valid(df) ==
    LET Keep(r) == r.valor # NO_VALUE
    IN  SelectSeq(df, Keep)

\* df[df['data'] <= target]
select_antes(df, target) ==
    LET Keep(r) == is_antes(r.data, target)
    IN  SelectSeq(df, Keep)

\* df[df['data'] > target]
select_depois(df, target) ==
    LET Keep(r) == is_depois(r.data, target)
    IN  SelectSeq(df, Keep)

\* The arrangements by date, rising or falling, of the rows of df at the
\* positions P, where rows of equal date come in any order.
RECURSIVE Arrangements(_, _, _)
Arrangements(df, P, ascending) ==
    IF P = {} THEN {<<>>}
    ELSE LET first == {k \in P : \A j \in P :
                          IF ascending THEN df[k].data <= df[j].data
                                       ELSE df[k].data >= df[j].data}
         IN  UNION {{<<df[k]>> \o t : t \in Arrangements(df, P \ {k}, ascending)} :
                    k \in first}

\* df.sort_values('data', ascending=...): pandas sorts with numpy's
\* quicksort, which does not promise to keep rows of equal date in their
\* order, so every arrangement that is ordered by date is a possible result.
sort_values(df, ascending) == Arrangements(df, DOMAIN df, ascending)

\* df['data'].dt.strftime('%Y%m%d') as a list
datas_of(df) == [k \in 1..Len(df) |-> strftime(df[k].data)]

\* df['valor'].tolist()
valores_of(df) == [k \in 1..Len(df) |-> df[k].valor]

RECURSIVE insert_sorted(_, _)
insert_sorted(x, s) ==
    IF s = <<>> THEN <<x>>
    ELSE IF x < Head(s) THEN <<x>> \o s
    ELSE <<Head(s)>> \o insert_sorted(x, Tail(s))

\* sorted(list) of date strings
RECURSIVE sorted(_)
sorted(s) == IF s = <<>> THEN <<>> ELSE insert_sorted(Head(s), sorted(Tail(s)))

PixelIdle ==
    /\ datas_pixel = <<>>
    /\ pixel_vals = <<>>
    /\ data_0_dt = 0
    /\ data_1_dt = None
    /\ n_obs = 0
    /\ obs_pc = "idle"
    /\ df_base = <<>>
    /\ band_b = 0
    /\ pixel_row = <<>>

\* Lines 39-53: the head of the row and the valid observations of band 0.
BuildBase ==
    /\ obs_pc = "call"
    /\ \E base \in sort_values(query_valid(DataFrame(datas_pixel, pixel_vals, 1)), TRUE) :
          df_base' = base
    /\ pixel_row' = ("data_0" :> <<strftime(data_0_dt)>>)
                    @@ ("data_1" :> (IF data_1_dt # None
                                     THEN <<strftime(data_1_dt[1])>> ELSE None))
                    @@ ("data_mid" :> <<strftime(data_target_dt(data_0_dt, data_1_dt))>>)
    /\ obs_pc' = "base"
    /\ UNCHANGED <<datas_pixel, pixel_vals, data_0_dt, data_1_dt, n_obs, band_b>>
    /\ UNCHANGED otherThanPixel

\* Lines 55-59: no valid observation, every list of the row is empty.
ReturnEmpty ==
    /\ obs_pc = "base"
    /\ df_base = <<>>
    /\ pixel_row' = [k \in {band_names[b] \o "_a" : b \in DOMAIN band_names}
                           \cup {band_names[b] \o "_d" : b \in DOMAIN band_names}
                           \cup {"dts_a", "dts_d"} |-> <<>>]
                    @@ pixel_row
    /\ obs_pc' = "returned"
    /\ UNCHANGED <<datas_pixel, pixel_vals, data_0_dt, data_1_dt, n_obs,
                   df_base, band_b>>
    /\ UNCHANGED otherThanPixel

\* Lines 61-64: the date lists the function can build from df_base, as
\* pairs <<dts_a, dts_d>>.
date_lists(base, target, n) ==
    {<<sorted(datas_of(head(antes, n))), datas_of(head(depois, n))>> :
        antes \in sort_values(select_antes(base, target), FALSE),
        depois \in sort_values(select_depois(base, target), TRUE)}

\* Lines 71-74: the value lists the function can build from df_band, as
\* pairs <<band_a, band_d>>.
band_lists_of(df_band, target, n) ==
    UNION {{<<valores_of(antes_sorted), valores_of(head(depois_band, n))>> :
               antes_sorted \in sort_values(head(antes_band, n), TRUE),
               depois_band \in sort_values(select_depois(df_band, target), TRUE)} :
           antes_band \in sort_values(select_antes(df_band, target), FALSE)}

\* Lines 67-74: the same for band b of the pixel.
band_lists(datas, vals, b, target, n) ==
    UNION {band_lists_of(df_band, target, n) :
           df_band \in sort_values(query_valid(DataFrame(datas, vals, b)), TRUE)}

\* Lines 61-64: the dates before and after the target date.
SelectDates ==
    /\ obs_pc = "base"
    /\ df_base # <<>>
    /\ \E dts \in date_lists(df_base, data_target_dt(data_0_dt, data_1_dt), n_obs) :
          pixel_row' = ("dts_a" :> dts[1]) @@ ("dts_d" :> dts[2]) @@ pixel_row
    /\ band_b' = 1
    /\ obs_pc' = "bands"
    /\ UNCHANGED <<datas_pixel, pixel_vals, data_0_dt, data_1_dt, n_obs, df_base>>
    /\ UNCHANGED otherThanPixel

\* Lines 66-74: one turn of the loop over band_names.
BandLists ==
    /\ obs_pc = "bands"
    /\ band_b <= Len(band_names)
    /\ \E lists \in band_lists(datas_pixel, pixel_vals, band_b,
                               data_target_dt(data_0_dt, data_1_dt), n_obs) :
          pixel_row' = (band_names[band_b] \o "_a" :> lists[1])
                       @@ (band_names[band_b] \o "_d" :> lists[2])
                       @@ pixel_row
    /\ band_b' = band_b + 1
    /\ UNCHANGED <<datas_pixel, pixel_vals, data_0_dt, data_1_dt, n_obs, obs_pc,
                   df_base>>
    /\ UNCHANGED otherThanPixel

\* Line 76: return row.
ReturnRow ==
    /\ obs_pc = "bands"
    /\ band_b > Len(band_names)
    /\ obs_pc' = "returned"
    /\ UNCHANGED <<datas_pixel, pixel_vals, data_0_dt, data_1_dt, n_obs,
                   df_base, band_b, pixel_row>>
    /\ UNCHANGED otherThanPixel

\* ------------------------------------------------------------------------
\* Specifications
\* ------------------------------------------------------------------------
\* filter_pixel_group on every pixel group within the bounds.
SpecFilterInit ==
    FilterInit /\ PipeIdle /\ TileIdle /\ PoolIdle /\ MosaicIdle /\ PixelIdle

SpecFilterNext == CallFilterPixelGroup

SpecFilter == SpecFilterInit /\ [][SpecFilterNext]_vars

\* process_directory_to_geotiff on a directory of up to MaxFiles tables
\* holding up to MaxRows rows in all.  The rows are drawn from three
\* locations, two of which fall into one raster cell, with break times on
\* both sides of the epoch or missing.  The rows of a table carry pandas'
\* default index 0, 1, ...
PipeRowValues ==
    {<<<<0, 0>>, NaN>>, <<<<0, 0>>, <<-1>>>>, <<<<0, 0>>, <<MsPerDay>>>>,
     <<<<0, 5>>, <<-1>>>>, <<<<0, 5>>, <<MsPerDay>>>>,
     <<<<15, 0>>, NaN>>, <<<<15, 0>>, <<MsPerDay>>>>}

MakeTable(rs) ==
    [i \in DOMAIN rs |-> [index |-> i - 1, x_coord |-> rs[i][1][1],
                          y_coord |-> rs[i][1][2], tBreak |-> rs[i][2]]]

\* The rows rs dealt to n files: row i goes to file tag[i].
Deal(rs, tag, n) ==
    [f \in 1..n |->
        LET mine(i) == tag[i] = f
            pos == SelectSeq([i \in DOMAIN rs |-> i], mine)
        IN  MakeTable([m \in DOMAIN pos |-> rs[pos[m]]])]

\* The ways of dealing k rows to n files in order.
Deals(k, n) ==
    {t \in [1..k -> 1..n] : \A i \in 1..k : \A m \in 1..k : i < m => t[i] <= t[m]}

PipeInit ==
    /\ \E k \in 0..MaxRows : \E n \in 0..MaxFiles :
       \E rs \in [1..k -> PipeRowValues] : \E tag \in Deals(k, n) :
           parquet_files = Deal(rs, tag, n)
    /\ output_vector_file \in {None, <<"gpkg">>}
    /\ pipe_pc = "glob"
    /\ file_i = 0
    /\ all_filtered_rows = <<>>
    /\ tbreak_array = <<>>
    /\ row_i = 0
    /\ written = {}

Init ==
    /\ PipeInit
    /\ group = <<>>
    /\ search_start = None    \* the entry block of the script sets no dates
    /\ search_end = None
    /\ fpg_pc = "idle"
    /\ filtered_row = None
    /\ TileIdle /\ PoolIdle /\ MosaicIdle /\ PixelIdle

Next ==
    \/ Glob
    \/ ProcessFile
    \/ Collected
    \/ CreateStyleFile
    \/ RasterRow
    \/ SaveGeotiff
    \/ SaveVector

Spec == Init /\ [][Next]_vars

\* exportImageForSingleImage on one image.
TileInit ==
    /\ coords \in {[xmin |-> x, ymin |-> y, xmax |-> x + w, ymax |-> y + h] :
                      x \in {-1, 2}, y \in {0, 3}, w \in 1..MaxExtent, h \in 1..MaxExtent}
    /\ tile_pc = "info"
    /\ tile_i = 0
    /\ tile_j = 0
    /\ regions = <<>>
    /\ region_k = 0
    /\ n_files = 0

SpecTilesInit ==
    TileInit /\ FilterIdle /\ PipeIdle /\ PoolIdle /\ MosaicIdle /\ PixelIdle

SpecTilesNext ==
    \/ GetInfo
    \/ ExportFails
    \/ AppendRegion
    \/ GridDone
    \/ DownloadPart
    \/ PartsDone

SpecTiles == SpecTilesInit /\ [][SpecTilesNext]_vars

\* process_and_mosaic_images on a list of up to MaxImages images.
PoolInit ==
    /\ num_images \in 0..MaxImages
    /\ pool_pc = "submit"
    /\ submitted = 0
    /\ started = 0
    /\ finished = 0
    /\ wait_i = 0
    /\ mosaic_i = 0
    /\ mosaic_running = {}
    /\ mosaic_order = <<>>

SpecPoolInit ==
    PoolInit /\ FilterIdle /\ PipeIdle /\ TileIdle /\ MosaicIdle /\ PixelIdle

SpecPoolNext ==
    \/ Submit
    \/ SubmitDone
    \/ WorkerStart
    \/ WorkerFinish
    \/ FutureResult
    \/ ExecutorExit
    \/ MosaicStart
    \/ MosaicEnd
    \/ AllMosaicsDone

SpecPool == SpecPoolInit /\ [][SpecPoolNext]_vars

\* combine_tiffs_to_mosaic on one date.
PixelValues == {0, 1, NODATA}

MosaicInit ==
    /\ tiff_files \in {0, 1}
    /\ merged \in [Bands -> [1..MosaicPixels -> PixelValues]]
    /\ inside \in SUBSET (1..MosaicPixels)
    /\ mosaic_pc = "glob"
    /\ clipped = None
    /\ out_image = None
    /\ output_file = None
    /\ subtiles_removed = FALSE

SpecMosaicInit ==
    MosaicInit /\ FilterIdle /\ PipeIdle /\ TileIdle /\ PoolIdle /\ PixelIdle

SpecMosaicNext ==
    \/ FindTiffs
    \/ MergeAndSave
    \/ MaskRaises
    \/ MaskMosaic
    \/ SetNodataAndSave

SpecMosaic == SpecMosaicInit /\ [][SpecMosaicNext]_vars

\* processar_pixel on a series of up to MaxObs dates.  The dates lie on
\* both sides of the month's end and may repeat, in any order; each band
\* value is missing or present.
ObsDates == {20200130, 20200131, 20200202}

ObsValues == {NO_VALUE, 1}

PixelInit ==
    /\ \E n \in 0..MaxObs :
          /\ datas_pixel \in [1..n -> ObsDates]
          /\ pixel_vals \in [1..n -> [DOMAIN band_names -> ObsValues]]
    /\ data_0_dt \in {strptime(20200130), strptime(20200131)}
    /\ data_1_dt \in {None, <<strptime(20200130)>>, <<strptime(20200203)>>}
    /\ n_obs \in {2, N_OBS}
    /\ obs_pc = "call"
    /\ df_base = <<>>
    /\ band_b = 0
    /\ pixel_row = <<>>

SpecPixelInit ==
    PixelInit /\ FilterIdle /\ PipeIdle /\ TileIdle /\ PoolIdle /\ MosaicIdle

SpecPixelNext ==
    \/ BuildBase
    \/ ReturnEmpty
    \/ SelectDates
    \/ BandLists
    \/ ReturnRow

SpecPixel == SpecPixelInit /\ [][SpecPixelNext]_vars

\* ------------------------------------------------------------------------
\* Claims about filter_pixel_group (SpecFilter)
\* ------------------------------------------------------------------------
\* tBreak value t lies in the search range: a bound that is given must be
\* met, and a missing value meets no bound.
InSearchRange(t) ==
    /\ search_start = None \/ (~isna(t) /\ Num(t) >= timestamp_ms(search_start))
    /\ search_end = None \/ (~isna(t) /\ Num(t) <= timestamp_ms(search_end))

\* The positions of the rows of the group that are left by the date filter.
Considered == {i \in DOMAIN group : InSearchRange(group[i].tBreak)}

\* Value a comes strictly before value b in descending order, a missing
\* value coming after every present one.
Above(a, b) == ~isna(a) /\ (isna(b) \/ Num(a) > Num(b))

\* The tBreak of row i is the second entry of the tBreak values of the rows
\* S in descending order: at most one row of S lies strictly above it, and
\* at least two rows of S (itself among them) do not lie below it.
IsSecondHighest(i, S) ==
    /\ Cardinality({k \in S : Above(group[k].tBreak, group[i].tBreak)}) <= 1
    /\ Cardinality({k \in S : ~Above(group[i].tBreak, group[k].tBreak)}) >= 2

\* C1: for a pixel group with two or more rows after the date filter,
\* filter_pixel_group returns a row of the group whose tBreak is the second
\* entry of the group's tBreak values in descending order, also when values
\* are equal or missing.
C1_SecondHighestReturned ==
    (fpg_pc = "returned" /\ Cardinality(Considered) >= 2) =>
        \E i \in Considered :
            filtered_row = <<group[i]>> /\ IsSecondHighest(i, Considered)

\* A call on three rows with distinct present values has returned the row
\* in the middle; and a call on a group with a missing value has returned.
C1_Witness ==
    /\ fpg_pc = "returned"
    /\ Cardinality(Considered) = 3
    /\ filtered_row # None
    /\ \E i, k \in Considered :
           /\ Above(group[i].tBreak, filtered_row[1].tBreak)
           /\ Above(filtered_row[1].tBreak, group[k].tBreak)
           /\ ~isna(group[k].tBreak)

\* C2: for a pixel group with exactly one row after the date filter,
\* filter_pixel_group returns that row unchanged, whatever its tBreak.
C2_SingleRowReturned ==
    (fpg_pc = "returned" /\ Cardinality(Considered) = 1) =>
        \E i \in Considered : filtered_row = <<group[i]>>

\* A call has returned the only row in range of a group of several rows,
\* a row whose tBreak equals search_start_ms.
C2_Witness ==
    /\ fpg_pc = "returned"
    /\ Cardinality(Considered) = 1
    /\ Len(group) >= 2
    /\ search_start # None
    /\ filtered_row # None
    /\ Num(filtered_row[1].tBreak) = timestamp_ms(search_start)

\* C3: with search_start and/or search_end given, only rows with
\* search_start_ms <= tBreak <= search_end_ms are considered: no row is
\* returned exactly when no row is in range, and a returned row is in range
\* and is the single row in range or the second-highest among the rows in
\* range.
C3_DateRangeInclusive ==
    (fpg_pc = "returned" /\ (search_start # None \/ search_end # None)) =>
        /\ filtered_row = None <=> Considered = {}
        /\ filtered_row # None =>
               \E i \in Considered :
                   /\ filtered_row = <<group[i]>>
                   /\ InSearchRange(filtered_row[1].tBreak)
                   /\ Cardinality(Considered) = 1 \/ IsSecondHighest(i, Considered)

\* A call with both dates given has returned a row whose tBreak equals
\* search_end_ms while a later row of the group was left out.
C3_Witness ==
    /\ fpg_pc = "returned"
    /\ search_start # None
    /\ search_end # None
    /\ filtered_row # None
    /\ Num(filtered_row[1].tBreak) = timestamp_ms(search_end)
    /\ \E k \in DOMAIN group :
           ~isna(group[k].tBreak) /\ Num(group[k].tBreak) > timestamp_ms(search_end)

\* ------------------------------------------------------------------------
\* Claims about process_directory_to_geotiff (Spec)
\* ------------------------------------------------------------------------
\* C4: the table collect_data_from_directory returns has at most one row
\* per pixel location (x_coord, y_coord), also when a location occurs in
\* more than one file.
C4_OneRowPerLocation ==
    pipe_pc \notin {"idle", "glob", "files"} =>
        \A i, k \in DOMAIN all_filtered_rows :
            (/\ all_filtered_rows[i].x_coord = all_filtered_rows[k].x_coord
             /\ all_filtered_rows[i].y_coord = all_filtered_rows[k].y_coord) => i = k

\* The raster parameters of the collected table.
Params == calculate_raster_parameters_utm(all_filtered_rows)

Abs(n) == IF n < 0 THEN -n ELSE n

\* The row lies on the ground covered by cell (r, c) of the raster, its
\* border included: within half a pixel of the centre of the cell.
InCell(row, r, c) ==
    /\ 2 * Abs(row.x_coord - (Params.min_x + c * res_x + res_x \div 2)) <= res_x
    /\ 2 * Abs(row.y_coord - (Params.max_y - r * res_y - res_y \div 2)) <= res_y

DaysInMonth(y, m) ==
    IF m = 2
    THEN IF y % 4 = 0 /\ (y % 100 # 0 \/ y % 400 = 0) THEN 29 ELSE 28
    ELSE IF m \in {4, 6, 9, 11} THEN 30 ELSE 31

\* v reads YYYYMMDD for a date of the calendar, and instant t (milliseconds
\* since the epoch) lies within that day of UTC.
IsUtcDateOf(v, t) ==
    LET y == v \div 10000
        m == (v \div 100) % 100
        d == v % 100
    IN  /\ m \in 1..12
        /\ d \in 1..DaysInMonth(y, m)
        /\ t - DaysFromCivil(y, m, d) * MsPerDay \in 0..(MsPerDay - 1)

ArrayExists == pipe_pc \in {"raster", "vector"} \/ (pipe_pc = "done" /\ "tif" \in written)

\* C6: every cell of the array of create_raster_array_utm is -9999 or the
\* YYYYMMDD of the UTC date of the tBreak of a collected row that lies in the
\* cell; a cell to which the function maps no row with a tBreak is -9999.
C6_RasterCells ==
    ArrayExists =>
        \A r \in DOMAIN tbreak_array : \A c \in DOMAIN tbreak_array[r] :
            /\ \/ tbreak_array[r][c] = -9999
               \/ \E k \in DOMAIN all_filtered_rows :
                      /\ ~isna(all_filtered_rows[k].tBreak)
                      /\ InCell(all_filtered_rows[k], r, c)
                      /\ IsUtcDateOf(tbreak_array[r][c], Num(all_filtered_rows[k].tBreak))
            /\ (\A k \in DOMAIN all_filtered_rows :
                    \/ isna(all_filtered_rows[k].tBreak)
                    \/ y_idx(all_filtered_rows[k], Params) # r
                    \/ x_idx(all_filtered_rows[k], Params) # c)
                => tbreak_array[r][c] = -9999

\* The array is complete: a cell holds the last day of 1969, another cell
\* is empty, and a row without tBreak was among the rows.
C6_Witness ==
    /\ pipe_pc = "done"
    /\ "tif" \in written
    /\ \E r \in DOMAIN tbreak_array : \E c \in DOMAIN tbreak_array[r] :
           tbreak_array[r][c] = 19691231
    /\ \E r \in DOMAIN tbreak_array : \E c \in DOMAIN tbreak_array[r] :
           tbreak_array[r][c] = -9999
    /\ \E k \in DOMAIN all_filtered_rows : isna(all_filtered_rows[k].tBreak)

\* C9: when data was collected, the vector file is written if and only if
\* output_vector_file is not None, and the GeoTIFF and the QGIS style file
\* are written in both cases.
C9_VectorOptional ==
    (pipe_pc = "done" /\ all_filtered_rows # <<>>) =>
        /\ "gpkg" \in written <=> output_vector_file # None
        /\ "tif" \in written
        /\ "qml" \in written

\* A run without a vector file name has ended with data collected.
C9_Witness ==
    /\ pipe_pc = "done"
    /\ all_filtered_rows # <<>>
    /\ output_vector_file = None
    /\ written = {"tif", "qml"}

\* ------------------------------------------------------------------------
\* Claims about exportImageForSingleImage (SpecTiles)
\* ------------------------------------------------------------------------
\* The list of regions is complete.
RegionsBuilt == tile_pc = "parts" \/ (tile_pc = "done" /\ regions # <<>>)

\* The interiors of two rectangles meet.
InteriorsMeet(a, b) ==
    /\ (IF a.x0 > b.x0 THEN a.x0 ELSE b.x0) < (IF a.x1 < b.x1 THEN a.x1 ELSE b.x1)
    /\ (IF a.y0 > b.y0 THEN a.y0 ELSE b.y0) < (IF a.y1 < b.y1 THEN a.y1 ELSE b.y1)

\* C7: the bounding box is divided into exactly 36 rectangles of size
\* step_x by step_y, labelled part_1 .. part_36, each label once, with
\* label i*6+j+1 on the rectangle of column i and row j; the rectangles
\* cover the bounding box and overlap only on their borders.
C7_Subtiles ==
    RegionsBuilt =>
        /\ Len(regions) = 36
        /\ {regions[k].label : k \in DOMAIN regions} = 1..36
        /\ \A k \in DOMAIN regions :
               /\ regions[k].rect.x1 - regions[k].rect.x0 = coords.xmax - coords.xmin
               /\ regions[k].rect.y1 - regions[k].rect.y0 = coords.ymax - coords.ymin
        /\ \A i \in 0..5 : \A j \in 0..5 :
               \E k \in DOMAIN regions :
                   /\ regions[k].label = i * 6 + j + 1
                   /\ regions[k].rect.x0 = 6 * coords.xmin + i * (coords.xmax - coords.xmin)
                   /\ regions[k].rect.y0 = 6 * coords.ymin + j * (coords.ymax - coords.ymin)
        /\ \A px \in (6 * coords.xmin)..(6 * coords.xmax) :
           \A py \in (6 * coords.ymin)..(6 * coords.ymax) :
               \E k \in DOMAIN regions :
                   /\ regions[k].rect.x0 <= px /\ px <= regions[k].rect.x1
                   /\ regions[k].rect.y0 <= py /\ py <= regions[k].rect.y1
        /\ \A k, l \in DOMAIN regions :
               k # l => ~InteriorsMeet(regions[k].rect, regions[l].rect)

\* The 36 regions of a box that is not square are built and the download
\* loop is under way.
C7_Witness ==
    /\ tile_pc = "parts"
    /\ Len(regions) = 36
    /\ region_k > 0
    /\ step_x(coords) # step_y(coords)

\* ------------------------------------------------------------------------
\* Claims about process_and_mosaic_images (SpecPool)
\* ------------------------------------------------------------------------
\* C8: at no time are more than 24 exportImageForSingleImage tasks running,
\* whatever the number of images.
C8_AtMost24Running == started - finished <= 24

\* 24 tasks run while a further submitted task waits for a worker.
C8_Witness ==
    /\ started - finished = 24
    /\ submitted > started

\* C10: no combine_tiffs_to_mosaic starts before every submitted
\* exportImageForSingleImage task has finished, and the mosaics are built
\* one at a time in the order of the image list.
C10_MosaicsAfterPool ==
    /\ mosaic_order # <<>> => (submitted = num_images /\ finished = num_images)
    /\ Cardinality(mosaic_running) <= 1
    /\ \A k \in DOMAIN mosaic_order : mosaic_order[k] = k - 1
    /\ mosaic_running \subseteq {mosaic_i}

\* The third mosaic is being built after more images than workers were
\* processed.
C10_Witness ==
    /\ num_images > max_workers
    /\ mosaic_running = {2}
    /\ Len(mosaic_order) = 3

\* ------------------------------------------------------------------------
\* Claims about combine_tiffs_to_mosaic (SpecMosaic)
\* ------------------------------------------------------------------------
\* The value of band b at pixel p as the masked array shows it: NODATA
\* where the entry is masked.
Visible(img, b, p) == IF img.mask[b][p] THEN NODATA ELSE img.data[b][p]

\* C5: in the mosaic that is written, a pixel that was 0 in all bands of
\* the clipped mosaic is NODATA in every band, and a pixel with at least one
\* non-zero band has kept its value in every band.
C5_OnlyAllZeroPixelsChange ==
    mosaic_pc = "saved" =>
        \A p \in Window(clipped) :
            /\ (\A b \in Bands : Visible(clipped, b, p) = 0)
                  => \A b \in Bands : output_file[1][b][p] = NODATA
            /\ (\E b \in Bands : Visible(clipped, b, p) # 0)
                  => \A b \in Bands : output_file[1][b][p] = Visible(clipped, b, p)


\* ------------------------------------------------------------------------
\* Claims about processar_pixel (SpecPixel)
\* ------------------------------------------------------------------------
\* The valid observations: those whose band-0 value is not 65535.
ValidObs == {i \in DOMAIN datas_pixel : pixel_vals[i][1] # 65535}

\* The target date, as the row reports it.
TargetDate == pixel_row["data_mid"][1]

ObsBefore == {i \in ValidObs : datas_pixel[i] <= TargetDate}

ObsAfter == {i \in ValidObs : datas_pixel[i] > TargetDate}

Ascending(l) == \A k \in 1..(Len(l) - 1) : l[k] <= l[k + 1]

\* List l holds the dates of the observations S, each as often as S has it.
HoldsDatesOf(l, S) ==
    \A d \in ObsDates \cup {l[k] : k \in DOMAIN l} :
        Cardinality({k \in DOMAIN l : l[k] = d})
            = Cardinality({i \in S : datas_pixel[i] = d})

AtMost(n, S) == IF Cardinality(S) <= n THEN Cardinality(S) ELSE n

\* C11: in the row processar_pixel returns, dts_a holds the dates of the at
\* most N_OBS latest valid observations dated on or before the target date,
\* dts_d those of the at most N_OBS earliest valid observations dated
\* strictly after it, both in ascending order; with no valid observation
\* every date list and band list of the row is empty.
C11_ObservationWindows ==
    obs_pc = "returned" =>
        /\ \E S \in SUBSET ObsBefore :
              /\ Cardinality(S) = AtMost(n_obs, ObsBefore)
              /\ \A i \in S, j \in ObsBefore \ S : datas_pixel[j] <= datas_pixel[i]
              /\ HoldsDatesOf(pixel_row["dts_a"], S)
        /\ \E S \in SUBSET ObsAfter :
              /\ Cardinality(S) = AtMost(n_obs, ObsAfter)
              /\ \A i \in S, j \in ObsAfter \ S : datas_pixel[i] <= datas_pixel[j]
              /\ HoldsDatesOf(pixel_row["dts_d"], S)
        /\ Ascending(pixel_row["dts_a"])
        /\ Ascending(pixel_row["dts_d"])
        /\ ValidObs = {} =>
              \A k \in {"dts_a", "dts_d", "g_a", "g_d", "r_a", "r_d"} :
                  pixel_row[k] = <<>>

\* A row is returned for a pixel with more than N_OBS = 2 valid observations
\* on or before the target date, of which two of different dates are kept.
C11_Witness ==
    /\ obs_pc = "returned"
    /\ n_obs = 2
    /\ Cardinality(ObsBefore) > n_obs
    /\ Len(pixel_row["dts_a"]) = 2
    /\ pixel_row["dts_a"][1] < pixel_row["dts_a"][2]

=============================================================================
